---- MODULE Spec2Model ----
(***************************************************************************)
(* Model of darts' CatBoostModel (models/forecasting/catboost_model.py)    *)
(* and PoissonNLLScorer (ad/scorers/nll_poisson_scorer.py).                *)
(*                                                                         *)
(* Spec       : life cycle of one CatBoostModel instance                   *)
(*              (__init__, fit, predict, export_onnx, properties).         *)
(* SpecTwin   : two instances built from the same arguments, fed calls.    *)
(* SpecScorer : PoissonNLLScorer._score_core_nllikelihood on small arrays. *)
(*                                                                         *)
(* Python None is encoded per field: "None" for a tag, -1 for an integer,  *)
(* <<>> for a list or an absent dict key, NoModel for a regressor.         *)
(* Quantile levels are written in percent (10 stands for 0.1).             *)
(***************************************************************************)
EXTENDS Integers, Sequences, FiniteSets, TLC

VARIABLES self, ret, files, twin, sc

vars == <<self, ret, files, twin, sc>>

(***************************************************************************)
(* Bounds                                                                  *)
(***************************************************************************)
MaxFits == 2
MaxLag == 2
MaxChunk == 4
MaxSeriesLen == 4
MaxSeed == 0
RngMod == 5
MaxTwinCalls == 2
MaxWindow == 3

(***************************************************************************)
(* Small helpers                                                           *)
(***************************************************************************)
Max(a, b) == IF a >= b THEN a ELSE b

Range(s) == {s[i] : i \in DOMAIN s}

None == "None"

(***************************************************************************)
(* Constructor arguments                                                   *)
(***************************************************************************)
\* likelihood tags a caller may pass; "laplace" is not a key of likelihood_map
LikelihoodArgs == {None, "quantile", "poisson", "gaussian", "RMSEWithUncertainty", "laplace"}

\* quantile lists a caller may pass; <<90, 10>> is not increasing
QuantileArgs == {<<10, 50, 90>>, <<50>>, <<90, 10>>}

\* random_state: None (-1) or an integer seed
RandomStateArgs == -1 .. MaxSeed

\* the "target" entry of self.lags as RegressionModel.__init__ leaves it:
\* ascending, strictly negative, or absent (<<>>) when only covariate lags are given
SortedLagSeqs(n) == {s \in [1 .. n -> (0 - MaxLag) .. -1] : \A i \in 1 .. n - 1 : s[i] < s[i + 1]}

TargetLagArgs == {<<>>} \cup UNION {SortedLagSeqs(n) : n \in 1 .. MaxLag}

ChunkArgs == 1 .. MaxChunk

\* the lag and chunk arguments of the instances that are fitted and used
FitLagArgs == {<<>>, <<-1>>}

FitChunkArgs == 1 .. 2

SeriesLens == 2 .. MaxSeriesLen

(***************************************************************************)
(* CatBoostModel.__init__                                                  *)
(***************************************************************************)
\* keys of likelihood_map
available_likelihoods == {"quantile", "poisson", "gaussian", "RMSEWithUncertainty"}

likelihood_map(l) ==
  CASE l = "quantile" -> <<>>
    [] l = "poisson" -> <<"Poisson">>
    [] l = "gaussian" -> <<"RMSEWithUncertainty">>
    [] l = "RMSEWithUncertainty" -> <<"RMSEWithUncertainty">>

\* _LikelihoodMixin._check_likelihood: raises unless the tag is available
check_likelihood_ok(l, available) == l \in available

\* _LikelihoodMixin._prepare_quantiles: rejects a malformed list, finds the median index
quantiles_ok(qs) ==
  /\ Len(qs) >= 1
  /\ \A i \in DOMAIN qs : qs[i] > 0 /\ qs[i] < 100
  /\ \A i \in 1 .. Len(qs) - 1 : qs[i] < qs[i + 1]

Dist50(q) == IF q >= 50 THEN q - 50 ELSE 50 - q

median_idx_of(qs) ==
  CHOOSE i \in DOMAIN qs :
    \A j \in DOMAIN qs : Dist50(qs[i]) < Dist50(qs[j]) \/ (Dist50(qs[i]) = Dist50(qs[j]) /\ i <= j)

\* the generator states OS entropy can give
EntropyStates == {0, RngMod - 1}

\* default_rng called without the seed
default_rng_unseeded(seed) == EntropyStates

\* np.random.default_rng(seed): an integer seed fixes the state, None takes OS entropy
default_rng(seed) ==
  IF seed = -1 THEN EntropyStates ELSE {(2 * seed + 1) % RngMod}

\* a regressor object: its loss_function, whether it was trained, the _random_seed
\* attribute export_onnx sets, and the fit call that created it (0: __init__)
Regressor(loss, gen) == [exists |-> TRUE, loss |-> loss, fitted |-> FALSE, seedattr |-> "", gen |-> gen]

NoModel == [exists |-> FALSE, loss |-> <<>>, fitted |-> FALSE, seedattr |-> "", gen |-> 0]

\* what a caller can see of the fitted state: the container, self.model, kwargs["loss_function"]
Observable(s) == [container |-> s.container, model |-> s.model, loss_function |-> s.loss_function]

\* pc, qi, fit_len: where fit stands; nfit, last_fit, fit_ok, pre: the number of fit
\* calls, how the latest ended, whether one succeeded, Observable at the latest call
NoInstance ==
  [status |-> "none", likelihood |-> None, quantiles |-> <<>>, median_idx |-> 0,
   rng |-> -1, random_state |-> -1, loss_function |-> <<>>, model |-> NoModel,
   has_container |-> FALSE, container |-> <<>>, lags_target |-> <<>>, ocl |-> 1,
   pc |-> "idle", qi |-> 0, fit_len |-> 0,
   nfit |-> 0, last_fit |-> "none", fit_ok |-> FALSE,
   pre |-> [container |-> <<>>, model |-> NoModel, loss_function |-> <<>>]]

\* InitFields with the generator built before the likelihood is validated
InitFields_eager_rng(likelihood, random_state, ocl) ==
  [NoInstance EXCEPT !.random_state = random_state, !.likelihood = likelihood, !.ocl = ocl,
                     !.rng = 0]

\* lines 136-144: the fields set before the likelihood is looked at
InitFields(likelihood, random_state, ocl) ==
  [NoInstance EXCEPT !.random_state = random_state, !.likelihood = likelihood, !.ocl = ocl]

\* lines 170-179: super().__init__ stores the lags and a new CatBoostRegressor(**kwargs)
InitSuper(s, lags_target) ==
  [s EXCEPT !.status = "ready", !.lags_target = lags_target,
            !.model = Regressor(s.loss_function, 0)]

\* lines 155-164 then 170-179, for the generator state r that default_rng gives;
\* status "init_failed" is the object as it stands when __init__ raises
InitResult(likelihood, quantiles, r, random_state, lags_target, ocl) ==
  LET s0 == InitFields(likelihood, random_state, ocl) IN
  IF likelihood = None THEN InitSuper(s0, lags_target)
  ELSE IF ~check_likelihood_ok(likelihood, available_likelihoods)
  THEN [s0 EXCEPT !.status = "init_failed"]
  ELSE IF likelihood = "quantile"
  THEN IF ~quantiles_ok(quantiles)
       THEN [s0 EXCEPT !.status = "init_failed", !.rng = r]
       ELSE InitSuper([s0 EXCEPT !.rng = r, !.quantiles = quantiles,
                                 !.median_idx = median_idx_of(quantiles),
                                 !.has_container = TRUE], lags_target)
  ELSE InitSuper([s0 EXCEPT !.rng = r, !.loss_function = likelihood_map(likelihood)],
                 lags_target)

NoRet == [op |-> "", err |-> "", num |-> 0, isnone |-> TRUE, names |-> <<>>]

InitRet(s) ==
  [NoRet EXCEPT !.op = "__init__",
                !.err = IF s.status = "ready" THEN "" ELSE "InvalidLikelihoodError"]

(***************************************************************************)
(* CatBoostModel.min_train_series_length                                   *)
(***************************************************************************)
\* min_train_series_length reading the last target lag instead of the first
min_train_series_length_last(s) ==
  Max(3, IF s.lags_target # <<>> THEN (0 - s.lags_target[Len(s.lags_target)]) + s.ocl + 1 ELSE s.ocl)

\* lines 304-313; lags_target = <<>> stands for '"target" not in self.lags'
min_train_series_length(s) ==
  Max(3, IF s.lags_target # <<>> THEN (0 - s.lags_target[1]) + s.ocl + 1 ELSE s.ocl)

(***************************************************************************)
(* CatBoostModel.fit                                                       *)
(***************************************************************************)
\* str(quantile)
Str(q) ==
  CASE q = 10 -> "0.1"
    [] q = 50 -> "0.5"
    [] q = 90 -> "0.9"
    [] OTHER -> "?"

\* f"Quantile:alpha={this_quantile}"
QuantileLoss(q) == <<"Quantile:alpha=", Str(q)>>

\* Clear that leaves the entries in place
Clear_keep(c) == c

\* dict.clear()
Clear(c) == <<>>

\* dict.__setitem__
SetItem(c, k, v) == [x \in DOMAIN c \cup {k} |-> IF x = k THEN v ELSE c[x]]

\* the quantile the loop of lines 234-249 is at in its qi-th iteration
LoopQuantile(s) == s.quantiles[s.qi]

\* StoreKey that always names the first quantile
StoreKey_first(s) == s.quantiles[1]

\* the key line 249 stores the trained regressor under
StoreKey(s) == LoopQuantile(s)

\* ForecastingModel.fit: a series shorter than min_train_series_length is refused
too_short(s, len) == len < min_train_series_length(s)

FitRaise(s, e) ==
  [self |-> [s EXCEPT !.pc = "idle", !.qi = 0, !.fit_len = 0, !.last_fit = "failed"],
   ret |-> [NoRet EXCEPT !.op = "fit", !.err = e]]

FitReturn(s) ==
  [self |-> [s EXCEPT !.pc = "idle", !.qi = 0, !.fit_len = 0, !.last_fit = "ok", !.fit_ok = TRUE],
   ret |-> [NoRet EXCEPT !.op = "fit"]]

\* lines 223-233, and lines 253-262 when the likelihood is not "quantile".
\* val: no validation series, a usable one, or one _create_lagged_data refuses;
\* trains: whether the regressor's own training goes through
FitCallResult(s, len, val, trains) ==
  LET s1 == [s EXCEPT !.nfit = @ + 1, !.last_fit = "running", !.pre = Observable(s)] IN
  IF val = "bad" THEN FitRaise(s1, "InsufficientHistoryError")
  ELSE IF s.likelihood = "quantile"
  THEN [self |-> [s1 EXCEPT !.container = Clear(@), !.pc = "configure", !.qi = 1, !.fit_len = len],
        ret |-> [NoRet EXCEPT !.op = "fit", !.err = "running"]]
  ELSE IF too_short(s1, len) THEN FitRaise(s1, "InsufficientHistoryError")
  ELSE IF ~trains THEN FitRaise(s1, "RegressorError")
  ELSE FitReturn([s1 EXCEPT !.model.fitted = TRUE])

\* lines 235-238: set the loss of the next quantile, build its regressor
FitConfigureResult(s) ==
  LET loss == QuantileLoss(LoopQuantile(s)) IN
  [s EXCEPT !.loss_function = loss, !.model = Regressor(loss, s.nfit), !.pc = "train"]

\* lines 240-247: super().fit trains self.model, or raises
FitTrainResult(s, r, trains) ==
  IF too_short(s, s.fit_len) THEN FitRaise(s, "InsufficientHistoryError")
  ELSE IF ~trains THEN FitRaise(s, "RegressorError")
  ELSE [self |-> [s EXCEPT !.model.fitted = TRUE, !.pc = "store"], ret |-> r]

\* lines 249-251: store the regressor, go on to the next quantile or return self
FitStoreResult(s, r) ==
  LET s1 == [s EXCEPT !.container = SetItem(@, StoreKey(s), s.model)] IN
  IF s.qi < Len(s.quantiles)
  THEN [self |-> [s1 EXCEPT !.qi = @ + 1, !.pc = "configure"], ret |-> r]
  ELSE FitReturn(s1)

(***************************************************************************)
(* CatBoostModel._likelihood_components_names, _predict_and_sample         *)
(***************************************************************************)
\* _quantiles_generate_components_names: one name per quantile
QuantileName(q) ==
  CASE q = 10 -> "q0.10"
    [] q = 50 -> "q0.50"
    [] q = 90 -> "q0.90"
    [] OTHER -> "q?"

\* lines 285-298: the parameter names per likelihood, or None
likelihood_components_names(s) ==
  IF s.likelihood = "quantile"
  THEN [isnone |-> FALSE, names |-> [i \in DOMAIN s.quantiles |-> QuantileName(s.quantiles[i])]]
  ELSE IF s.likelihood = "poisson" THEN [isnone |-> FALSE, names |-> <<"lamba">>]
  ELSE IF s.likelihood \in {"gaussian", "RMSEWithUncertainty"}
  THEN [isnone |-> FALSE, names |-> <<"mu", "sigma">>]
  ELSE [isnone |-> TRUE, names |-> <<>>]

\* lines 272-283: the distribution the sampler is asked for
sample_likelihood(s) ==
  IF s.likelihood \in {"gaussian", "RMSEWithUncertainty"} THEN "normal"
  ELSE IF s.likelihood # None THEN s.likelihood
  ELSE "deterministic"

\* the generator after one draw
Advance(r) == (r + 1) % RngMod

RECURSIVE AdvanceN(_, _)
AdvanceN(r, n) == IF n = 0 THEN r ELSE AdvanceN(Advance(r), n - 1)

\* _predict_and_sample_likelihood: num_samples draws from self._rng around the
\* regressor's output for x; the deterministic case draws nothing
SamplePath(r, dist, x, n) ==
  IF dist = "deterministic" THEN <<x>>
  ELSE [i \in 1 .. n |-> (x + AdvanceN(r, i)) % RngMod]

RngAfter(r, dist, n) == IF dist = "deterministic" THEN r ELSE AdvanceN(r, n)

\* predict(..., num_samples = n, predict_likelihood_parameters = plp) on input x
PredictResult(s, x, n, plp) ==
  IF ~s.fit_ok
  THEN [self |-> s, ret |-> [NoRet EXCEPT !.op = "predict", !.err = "NotFittedError"]]
  ELSE IF plp
  THEN [self |-> s,
        ret |-> [NoRet EXCEPT !.op = "predict_params",
                              !.isnone = likelihood_components_names(s).isnone,
                              !.names = likelihood_components_names(s).names]]
  ELSE [self |-> [s EXCEPT !.rng = RngAfter(@, sample_likelihood(s), n)],
        ret |-> [NoRet EXCEPT !.op = "predict", !.isnone = FALSE,
                              !.names = SamplePath(s.rng, sample_likelihood(s), x, n)]]

(***************************************************************************)
(* CatBoostModel.export_onnx                                               *)
(***************************************************************************)
\* what lines 337-338 can do on the wrapped regressor: self.model.estimator may
\* be missing, save_model may refuse, or the file is written
ExportOutcomes == {"AttributeError", "CatBoostError", "written"}

\* the regressors of the container that are the object self.model
SameObject(a, b) == a.exists /\ b.exists /\ a.gen = b.gen /\ a.loss = b.loss

\* lines 319-338; file is the path written, "" when none is
ExportResult(s, path, out) ==
  LET p == IF path = None THEN "default.onnx" ELSE path IN
  IF ~s.model.exists
  THEN [self |-> s, file |-> "",
        ret |-> [NoRet EXCEPT !.op = "export_onnx", !.err = "NotFittedError"]]
  ELSE IF out = "AttributeError"
  THEN [self |-> s, file |-> "", ret |-> [NoRet EXCEPT !.op = "export_onnx", !.err = out]]
  ELSE [self |-> [s EXCEPT !.model.seedattr = "42",
                           !.container = [q \in DOMAIN @ |->
                              IF SameObject(@[q], s.model) THEN [@[q] EXCEPT !.seedattr = "42"]
                              ELSE @[q]]],
        file |-> IF out = "written" THEN p ELSE "",
        ret |-> [NoRet EXCEPT !.op = "export_onnx", !.err = IF out = "written" THEN "" ELSE out]]

(***************************************************************************)
(* One instance: Spec                                                      *)
(***************************************************************************)
NoTwin == <<>>

NoScorer ==
  [phase |-> "none", vals |-> <<>>, pred_vals |-> <<>>, score |-> <<>>, window |-> 0, wscore |-> <<>>]

Init ==
  /\ self = NoInstance
  /\ ret = NoRet
  /\ files = {}
  /\ twin = NoTwin
  /\ sc = NoScorer

Construct ==
  /\ self.status = "none"
  /\ \E l \in LikelihoodArgs, qs \in QuantileArgs, rs \in RandomStateArgs,
        lt \in FitLagArgs, ocl \in FitChunkArgs :
       \E r \in default_rng(rs) :
         /\ self' = InitResult(l, qs, r, rs, lt, ocl)
         /\ ret' = InitRet(self')
  /\ UNCHANGED <<files, twin, sc>>

Idle == self.status = "ready" /\ self.pc = "idle"

GetMinTrainSeriesLength ==
  /\ Idle
  /\ ret' = [NoRet EXCEPT !.op = "min_train_series_length", !.num = min_train_series_length(self),
                          !.isnone = FALSE]
  /\ UNCHANGED <<self, files, twin, sc>>

FitCall ==
  /\ Idle
  /\ self.nfit < MaxFits
  /\ \E len \in SeriesLens, val \in {"none", "ok", "bad"}, trains \in BOOLEAN :
       LET res == FitCallResult(self, len, val, trains) IN
       self' = res.self /\ ret' = res.ret
  /\ UNCHANGED <<files, twin, sc>>

FitConfigure ==
  /\ self.pc = "configure"
  /\ self' = FitConfigureResult(self)
  /\ UNCHANGED <<ret, files, twin, sc>>

FitTrain ==
  /\ self.pc = "train"
  /\ \E trains \in BOOLEAN :
       LET res == FitTrainResult(self, ret, trains) IN
       self' = res.self /\ ret' = res.ret
  /\ UNCHANGED <<files, twin, sc>>

FitStore ==
  /\ self.pc = "store"
  /\ LET res == FitStoreResult(self, ret) IN
       self' = res.self /\ ret' = res.ret
  /\ UNCHANGED <<files, twin, sc>>

Predict ==
  /\ Idle
  /\ \E x \in 0 .. 1, n \in 1 .. 2, plp \in BOOLEAN :
       LET res == PredictResult(self, x, n, plp) IN
       self' = res.self /\ ret' = res.ret
  /\ UNCHANGED <<files, twin, sc>>

ExportOnnx ==
  /\ Idle
  /\ \E path \in {None, "m.onnx"}, out \in ExportOutcomes :
       LET res == ExportResult(self, path, out) IN
       /\ self' = res.self
       /\ ret' = res.ret
       /\ files' = IF res.file = "" THEN files ELSE files \cup {res.file}
  /\ UNCHANGED <<twin, sc>>

Next ==
  \/ Construct
  \/ GetMinTrainSeriesLength
  \/ FitCall
  \/ FitConfigure
  \/ FitTrain
  \/ FitStore
  \/ Predict
  \/ ExportOnnx

Spec == Init /\ [][Next]_vars

(***************************************************************************)
(* min_train_series_length over all lag specifications: SpecLen            *)
(***************************************************************************)
ConstructLags ==
  /\ self.status = "none"
  /\ \E l \in LikelihoodArgs, qs \in QuantileArgs, rs \in RandomStateArgs,
        lt \in TargetLagArgs, ocl \in ChunkArgs :
       \E r \in default_rng(rs) :
         /\ self' = InitResult(l, qs, r, rs, lt, ocl)
         /\ ret' = InitRet(self')
  /\ UNCHANGED <<files, twin, sc>>

NextLen ==
  \/ ConstructLags
  \/ GetMinTrainSeriesLength

SpecLen == Init /\ [][NextLen]_vars

(***************************************************************************)
(* Two instances built from the same arguments: SpecTwin                   *)
(***************************************************************************)
TwinLikelihoods == {None, "poisson", "quantile"}

\* fit run from the call to its return or raise
RECURSIVE RunFit(_, _)
RunFit(res, trains) ==
  IF res.self.pc = "configure" THEN RunFit([self |-> FitConfigureResult(res.self), ret |-> res.ret], trains)
  ELSE IF res.self.pc = "train" THEN RunFit(FitTrainResult(res.self, res.ret, trains), trains)
  ELSE IF res.self.pc = "store" THEN RunFit(FitStoreResult(res.self, res.ret), trains)
  ELSE res

TwinOf(s) == [self |-> s, calls |-> <<>>, outs |-> <<>>]

InitTwin ==
  /\ self = NoInstance
  /\ ret = NoRet
  /\ files = {}
  /\ sc = NoScorer
  /\ \E l \in TwinLikelihoods, rs \in RandomStateArgs :
       \E r1 \in default_rng(rs), r2 \in default_rng(rs) :
         twin = <<TwinOf(InitResult(l, <<10, 50, 90>>, r1, rs, <<-1>>, 1)),
                  TwinOf(InitResult(l, <<10, 50, 90>>, r2, rs, <<-1>>, 1))>>

TwinDo(i, call, res) ==
  twin' = [twin EXCEPT ![i] = [self |-> res.self, calls |-> Append(@.calls, call),
                               outs |-> Append(@.outs, res.ret)]]

TwinFit ==
  /\ \E i \in 1 .. 2, len \in {2, MaxSeriesLen} :
       /\ Len(twin[i].calls) < MaxTwinCalls
       /\ TwinDo(i, [op |-> "fit", a |-> len, b |-> 0],
                 RunFit(FitCallResult(twin[i].self, len, "none", TRUE), TRUE))
  /\ UNCHANGED <<self, ret, files, sc>>

TwinPredict ==
  /\ \E i \in 1 .. 2, x \in 0 .. 1, n \in 1 .. 2 :
       /\ Len(twin[i].calls) < MaxTwinCalls
       /\ TwinDo(i, [op |-> "predict", a |-> x, b |-> n], PredictResult(twin[i].self, x, n, FALSE))
  /\ UNCHANGED <<self, ret, files, sc>>

NextTwin ==
  \/ TwinFit
  \/ TwinPredict

SpecTwin == InitTwin /\ [][NextTwin]_vars

(***************************************************************************)
(* PoissonNLLScorer._score_core_nllikelihood: SpecScorer                   *)
(***************************************************************************)
\* Floating-point values are kept in millionths; a value is finite, +inf,
\* -inf or NaN.
Fin(v) == [kind |-> "fin", val |-> v]

PosInf == [kind |-> "posinf", val |-> 0]

NegInf == [kind |-> "neginf", val |-> 0]

NaN == [kind |-> "nan", val |-> 0]

Micro(n) == n * 1000000

\* ln(n) in millionths, n = 1 .. 100
LnTable ==
  <<0, 693147, 1098612, 1386294, 1609438, 1791759, 1945910, 2079442, 2197225,
     2302585, 2397895, 2484907, 2564949, 2639057, 2708050, 2772589, 2833213, 2890372,
     2944439, 2995732, 3044522, 3091042, 3135494, 3178054, 3218876, 3258097, 3295837,
     3332205, 3367296, 3401197, 3433987, 3465736, 3496508, 3526361, 3555348, 3583519,
     3610918, 3637586, 3663562, 3688879, 3713572, 3737670, 3761200, 3784190, 3806662,
     3828641, 3850148, 3871201, 3891820, 3912023, 3931826, 3951244, 3970292, 3988984,
     4007333, 4025352, 4043051, 4060443, 4077537, 4094345, 4110874, 4127134, 4143135,
     4158883, 4174387, 4189655, 4204693, 4219508, 4234107, 4248495, 4262680, 4276666,
     4290459, 4304065, 4317488, 4330733, 4343805, 4356709, 4369448, 4382027, 4394449,
     4406719, 4418841, 4430817, 4442651, 4454347, 4465908, 4477337, 4488636, 4499810,
     4510860, 4521789, 4532599, 4543295, 4553877, 4564348, 4574711, 4584967, 4595120,
     4605170>>

LnMicro(n) == LnTable[n]

RECURSIVE Sum(_)
Sum(row) == IF row = <<>> THEN 0 ELSE Head(row) + Sum(Tail(row))

RECURSIVE GCD(_, _)
GCD(a, b) == IF b = 0 THEN a ELSE GCD(b, a % b)

\* a sum: used where the mean is wanted
Mean_sum(row) == [num |-> Sum(row), den |-> 1]

\* np.mean over the samples of one time step, as a reduced fraction
Mean(row) ==
  LET g == GCD(IF Sum(row) < 0 THEN 0 - Sum(row) ELSE Sum(row), Len(row)) IN
  [num |-> Sum(row) \div g, den |-> Len(row) \div g]

\* gammaln(k + 1) = ln(k!)
RECURSIVE GammaLn1(_)
GammaLn1(k) == IF k <= 1 THEN 0 ELSE LnMicro(k) + GammaLn1(k - 1)

\* k * log(mu) computed without the x = 0 case of xlogy: 0 * -inf is NaN
XLogY_naive(k, mu) ==
  IF mu.num = 0 THEN (IF k = 0 THEN NaN ELSE NegInf)
  ELSE Fin(k * (LnMicro(mu.num) - LnMicro(mu.den)))

\* scipy.special.xlogy(k, mu): 0 when k = 0, else k * log(mu)
XLogY(k, mu) ==
  IF k = 0 THEN Fin(0)
  ELSE IF mu.num = 0 THEN NegInf
  ELSE Fin(k * (LnMicro(mu.num) - LnMicro(mu.den)))

\* scipy.stats.poisson.logpmf(k, mu): NaN for an invalid rate, -inf outside
\* the support, else xlogy(k, mu) - gammaln(k + 1) - mu
poisson_logpmf(k, mu) ==
  IF mu.num < 0 THEN NaN
  ELSE IF k < 0 THEN NegInf
  ELSE IF XLogY(k, mu).kind # "fin" THEN XLogY(k, mu)
  ELSE Fin(XLogY(k, mu).val - GammaLn1(k) - (Micro(mu.num) \div mu.den))

\* unary minus
Neg(v) ==
  CASE v.kind = "fin" -> Fin(0 - v.val)
    [] v.kind = "posinf" -> NegInf
    [] v.kind = "neginf" -> PosInf
    [] OTHER -> NaN

\* lines 36-40: vals[t] is the true value, pred_vals[t] the samples at time t
score_core_nllikelihood(vals, pred_vals) ==
  [t \in DOMAIN vals |-> Neg(poisson_logpmf(vals[t], Mean(pred_vals[t])))]

RECURSIVE Flatten(_)
Flatten(rows) == IF rows = <<>> THEN <<>> ELSE Head(rows) \o Flatten(Tail(rows))

\* NLLScorer windowing: the rate is fitted on all samples of the window and
\* the window's latest true value is scored; one score per window end
window_scores(vals, pred_vals, w) ==
  [e \in w .. Len(vals) |->
     score_core_nllikelihood(<<vals[e]>>, <<Flatten(SubSeq(pred_vals, e - w + 1, e))>>)[1]]

TrueVals == {-1, 0, 5, 6}

SampleVals == {0, 5, 6}

\* the number of samples per time step
SampleCounts == {1, 2}

\* the samples of one time step, listed in ascending order
SampleRows(n) == {r \in [1 .. n -> SampleVals] : \A i \in 1 .. n - 1 : r[i] <= r[i + 1]}

InitScorer ==
  /\ self = NoInstance
  /\ ret = NoRet
  /\ files = {}
  /\ twin = NoTwin
  /\ \E T \in 1 .. MaxWindow, n \in SampleCounts :
       \E v \in [1 .. T -> TrueVals], p \in [1 .. T -> SampleRows(n)] :
         sc = [NoScorer EXCEPT !.phase = "loaded", !.vals = v, !.pred_vals = p]

ScoreCore ==
  /\ sc.phase = "loaded"
  /\ sc' = [sc EXCEPT !.phase = "scored", !.score = score_core_nllikelihood(sc.vals, sc.pred_vals)]
  /\ UNCHANGED <<self, ret, files, twin>>

ScoreWindows ==
  /\ sc.phase = "scored"
  /\ \E w \in 1 .. Len(sc.vals) :
       sc' = [sc EXCEPT !.phase = "windowed", !.window = w,
                        !.wscore = window_scores(sc.vals, sc.pred_vals, w)]
  /\ UNCHANGED <<self, ret, files, twin>>

NextScorer ==
  \/ ScoreCore
  \/ ScoreWindows

SpecScorer == InitScorer /\ [][NextScorer]_vars

(***************************************************************************)
(* Properties of one instance                                              *)
(***************************************************************************)
MinOf(S) == CHOOSE m \in S : \A t \in S : m <= t

\* C1: in quantile mode, once a fit call has returned normally, the container's
\* keys are exactly the declared quantiles and every regressor in it was
\* created (and trained) by that latest fit call.
C1_EnsembleAfterFit ==
  (self.likelihood = "quantile" /\ self.pc = "idle" /\ self.last_fit = "ok") =>
    /\ DOMAIN self.container = Range(self.quantiles)
    /\ \A q \in DOMAIN self.container :
         self.container[q].gen = self.nfit /\ self.container[q].fitted

\* a second successful fit over a container the first fit had filled
C1_Witness ==
  /\ self.likelihood = "quantile" /\ self.pc = "idle" /\ self.last_fit = "ok"
  /\ self.nfit = 2 /\ Len(self.quantiles) = 3
  /\ DOMAIN self.pre.container = Range(self.quantiles)

\* C2: a fit call that fails leaves the container, self.model and the stored
\* loss_function as they were when the call was made.
C2_FitAllOrNothing ==
  (ret.op = "fit" /\ self.last_fit = "failed") => Observable(self) = self.pre

\* C3 as stated: whatever the lag specification, min_train_series_length is
\* max(3, -m + output_chunk_length + 1) for the most negative target lag m.
C3_MinTrainLengthAnyLags ==
  ret.op = "min_train_series_length" =>
    \E m \in Range(self.lags_target) :
      /\ \A t \in Range(self.lags_target) : m <= t
      /\ ret.num = Max(3, (0 - m) + self.ocl + 1)

\* C3 amended: with target lags min_train_series_length is
\* max(3, -min(target_lags) + output_chunk_length + 1); without target lags
\* it is max(3, output_chunk_length).
C3_MinTrainLength ==
  ret.op = "min_train_series_length" =>
    ret.num = IF self.lags_target # <<>>
              THEN Max(3, (0 - MinOf(Range(self.lags_target))) + self.ocl + 1)
              ELSE Max(3, self.ocl)

C3_Witness ==
  /\ ret.op = "min_train_series_length"
  /\ Len(self.lags_target) = 2
  /\ ret.num > 3

\* C4: the likelihood parameter names depend on the likelihood tag alone: one
\* per quantile, <<"lambda">> for Poisson, <<"mu", "sigma">> for Gaussian and
\* its RMSEWithUncertainty alias, None in point mode.
C4_ParameterNames ==
  ret.op = "predict_params" =>
    CASE self.likelihood = "quantile" -> ~ret.isnone /\ Len(ret.names) = Len(self.quantiles)
      [] self.likelihood = "poisson" -> ~ret.isnone /\ ret.names = <<"lambda">>
      [] self.likelihood \in {"gaussian", "RMSEWithUncertainty"} ->
           ~ret.isnone /\ ret.names = <<"mu", "sigma">>
      [] OTHER -> ret.isnone

\* C5: export_onnx before any successful fit fails with a not-fitted error,
\* writes no file and leaves the wrapped regressor alone; a file is written
\* only after a successful fit.
C5_ExportRequiresFit ==
  /\ (ret.op = "export_onnx" /\ ~self.fit_ok) =>
       (ret.err = "NotFittedError" /\ files = {} /\ self.model.seedattr = "")
  /\ files # {} => self.fit_ok

C10_QuantileTrainingOrder ==
  (self.status = "ready" /\ self.likelihood = "quantile") =>
    /\ \A i, j \in DOMAIN self.quantiles : i < j => self.quantiles[i] < self.quantiles[j]
    /\ self.pc \in {"configure", "train", "store"} =>
         DOMAIN self.container = {self.quantiles[i] : i \in 1 .. self.qi - 1}
    /\ self.pc \in {"train", "store"} =>
         /\ self.model.loss = <<"Quantile:alpha=", Str(self.quantiles[self.qi])>>
         /\ self.model.fitted = (self.pc = "store")
    /\ \A q \in DOMAIN self.container :
         /\ self.container[q].fitted
         /\ self.container[q].loss = <<"Quantile:alpha=", Str(q)>>

\* the second quantile of a second fit is about to be trained
C10_Witness ==
  /\ self.likelihood = "quantile" /\ self.pc = "train"
  /\ self.qi = 2 /\ self.nfit = 2
  /\ DOMAIN self.pre.container = Range(self.quantiles)

(***************************************************************************)
(* Properties of two instances                                             *)
(***************************************************************************)
\* the number of samples the predict calls of a call list have drawn
RECURSIVE Draws(_, _)
Draws(calls, outs) ==
  IF calls = <<>> THEN 0
  ELSE (IF Head(calls).op = "predict" /\ Head(outs).err = "" THEN Head(calls).b ELSE 0)
       + Draws(Tail(calls), Tail(outs))

MinLen(a, b) == IF Len(a) <= Len(b) THEN Len(a) ELSE Len(b)

Less(a, b) ==
  \/ a.kind = "fin" /\ b.kind = "fin" /\ a.val < b.val
  \/ a.kind = "fin" /\ b.kind = "posinf"
  \/ a.kind = "neginf" /\ b.kind \in {"fin", "posinf"}

\* -logpmf(k, mu = c) for a true count k >= 0 and a whole rate c >= 1
NLLAt(k, c) == Micro(c) - k * LnMicro(c) + GammaLn1(k)

AllEqual(row, c) == \A i \in DOMAIN row : row[i] = c

Scored == sc.phase \in {"scored", "windowed"}

\* C8: the rate is the mean of the samples and the score of a true value v is
\* -logpmf(v, rate): samples all equal to c >= 1 score v as -logpmf(v, c), for
\* a window of constant samples too; and a true count v >= 1 scores strictly
\* lower under rate v than under any other rate.
C8_PoissonScore ==
  /\ Scored =>
       /\ \A t \in DOMAIN sc.vals : \A c \in SampleVals :
            (c >= 1 /\ AllEqual(sc.pred_vals[t], c) /\ sc.vals[t] >= 0) =>
              sc.score[t] = Fin(NLLAt(sc.vals[t], c))
       /\ \A t, u \in DOMAIN sc.vals :
            (/\ sc.vals[t] >= 1 /\ sc.vals[u] = sc.vals[t]
             /\ Sum(sc.pred_vals[t]) = sc.vals[t] * Len(sc.pred_vals[t])
             /\ Sum(sc.pred_vals[u]) # sc.vals[u] * Len(sc.pred_vals[u])) =>
              Less(sc.score[t], sc.score[u])
  /\ sc.phase = "windowed" =>
       \A e \in DOMAIN sc.wscore : \A c \in SampleVals :
         (/\ c >= 1 /\ sc.vals[e] >= 0
          /\ \A t \in e - sc.window + 1 .. e : AllEqual(sc.pred_vals[t], c)) =>
           sc.wscore[e] = Fin(NLLAt(sc.vals[e], c))

\* a window of length 3 with every sample 5 and the true window <<5, 5, 5>>
C8_Witness ==
  /\ sc.phase = "windowed" /\ sc.window = 3
  /\ sc.vals = <<5, 5, 5>>
  /\ \A t \in 1 .. 3 : Len(sc.pred_vals[t]) = 2 /\ AllEqual(sc.pred_vals[t], 5)
  /\ sc.wscore[3] = sc.score[3]

\* C9: no score is NaN; a true value 0 under a fitted rate of exactly 0 scores
\* 0, which no score goes below; a negative true value scores +infinity.
C9_EdgePolicy ==
  Scored =>
    \A t \in DOMAIN sc.vals :
      /\ sc.score[t].kind # "nan"
      /\ ~Less(sc.score[t], Fin(0))
      /\ (Sum(sc.pred_vals[t]) = 0 /\ sc.vals[t] = 0) => sc.score[t] = Fin(0)
      /\ sc.vals[t] < 0 => sc.score[t] = PosInf

\* a zero rate scored against 0 and a negative true value, in one call
C9_Witness ==
  /\ Scored
  /\ \E t, u \in DOMAIN sc.vals :
       /\ Sum(sc.pred_vals[t]) = 0 /\ sc.vals[t] = 0 /\ Len(sc.pred_vals[t]) = 2
       /\ sc.vals[u] < 0 /\ sc.score[u] = PosInf
====
